---- MODULE Spec2Model ----
(***************************************************************************)
(* Serial gateway of app.py: the transport (connect_to_serial,             *)
(* fetch_from_serial behind serial_lock) and the HTTP command facade.      *)
(*                                                                         *)
(* Threads are the callers of fetch_from_serial (Flask request handlers    *)
(* and scheduler jobs).  Every statement of fetch_from_serial that touches *)
(* the shared `ser`, the lock or the serial device is one atomic step; the *)
(* local computation that follows it belongs to the same step.             *)
(*                                                                         *)
(* Bytes on the wire are sequences of tokens.  A token is a record         *)
(* [sym, key, val]; sym "member" stands for one `"key": value` pair of a   *)
(* JSON object, "n" for a JSON number, "x" for a character that is no JSON *)
(* syntax, "bad" for a byte sequence that is not valid UTF-8.              *)
(***************************************************************************)
EXTENDS Naturals, Sequences, FiniteSets

\* ------------------------------------------------------------- bounds
\* Number of concurrent threads calling fetch_from_serial.
NumCallers == 2

\* Number of serial.Serial objects the model lets be created.
MaxOpens == 2

\* ---------------------------------------------------------- constants
DATA_TIMEOUT == 5

\* The read timeout the port is opened with (timeout=DATA_TIMEOUT).
ReadTimeout == DATA_TIMEOUT

Callers == 1..NumCallers

\* ------------------------------------------------------------- tokens
Tok(s) == [sym |-> s, key |-> "", val |-> ""]

Mem(k, v) == [sym |-> "member", key |-> k, val |-> v]

NL == Tok("\n")

Whitespace == {" ", "\n", "\r", "\t"}

\* ----------------------------------------------------- Python values
\* A dict is a set of <<key, value>> pairs with one pair per key.
\* fetch_from_serial returns None, or what json.loads produced.
None == [kind |-> "None", d |-> {}]

Dict(d) == [kind |-> "dict", d |-> d]

Number == [kind |-> "number", d |-> {}]

\* `key in data`
Has(data, k) == \E p \in data.d : p[1] = k

\* data.get(key, default)
Get(data, k, default) ==
    IF Has(data, k) THEN (CHOOSE p \in data.d : p[1] = k)[2] ELSE default

\* Python truthiness of a fetch result: None and {} are falsy.
Truthy(data) ==
    \/ data.kind = "number"
    \/ data.kind = "dict" /\ data.d # {}

\* ------------------------------------------------- bytes.decode, strip
\* bytes.decode('utf-8') raises UnicodeDecodeError on an invalid sequence.
Decodable(raw) == \A i \in 1..Len(raw) : raw[i].sym # "bad"

RECURSIVE LStrip(_)
LStrip(s) ==
    IF s # <<>> /\ Head(s).sym \in Whitespace THEN LStrip(Tail(s)) ELSE s

RECURSIVE RStrip(_)
RStrip(s) ==
    IF s # <<>> /\ s[Len(s)].sym \in Whitespace
    THEN RStrip(SubSeq(s, 1, Len(s) - 1))
    ELSE s

\* str.strip()
Strip(s) == RStrip(LStrip(s))

StartsWithBrace(line) == line # <<>> /\ line[1].sym = "{"

EndsWithBrace(line) == line # <<>> /\ line[Len(line)].sym = "}"

\* line.startswith('{') and line.endswith('}')
LooksLikeObject(line) == StartsWithBrace(line) /\ EndsWithBrace(line)

\* --------------------------------------------------------- json.loads
RECURSIVE DropWs(_)
DropWs(s) ==
    IF s = <<>> THEN <<>>
    ELSE IF Head(s).sym \in Whitespace THEN DropWs(Tail(s))
    ELSE <<Head(s)>> \o DropWs(Tail(s))

\* member (, member)* : members at the odd places, commas at the even ones.
WellFormedMembers(ms) ==
    /\ Len(ms) % 2 = 1
    /\ \A i \in 1..Len(ms) :
         IF i % 2 = 1 THEN ms[i].sym = "member" ELSE ms[i].sym = ","

\* The dict of a member list: a repeated key keeps its last value.
MembersToDict(ms) ==
    { <<ms[i].key, ms[i].val>> : i \in
        { j \in 1..Len(ms) :
            /\ ms[j].sym = "member"
            /\ \A k \in (j + 1)..Len(ms) :
                 ~(ms[k].sym = "member" /\ ms[k].key = ms[j].key) } }

\* json.loads(line): [ok |-> FALSE] stands for json.JSONDecodeError.
JsonLoads(line) ==
    LET t == DropWs(line) IN
    IF Len(t) = 1 /\ t[1].sym = "n"
    THEN [ok |-> TRUE, value |-> Number]
    ELSE IF Len(t) >= 2 /\ t[1].sym = "{" /\ t[Len(t)].sym = "}"
    THEN LET ms == SubSeq(t, 2, Len(t) - 1) IN
         IF ms = <<>> THEN [ok |-> TRUE, value |-> Dict({})]
         ELSE IF WellFormedMembers(ms)
         THEN [ok |-> TRUE, value |-> Dict(MembersToDict(ms))]
         ELSE [ok |-> FALSE, value |-> None]
    ELSE [ok |-> FALSE, value |-> None]

\* One pass of the body of the read loop over the bytes readline returned:
\* what the iteration does with them.
\*   "raise"  : decode raised UnicodeDecodeError
\*   "return" : `return data`
\*   "skip"   : the loop goes on (empty, ignored or unparseable line)
ClassifyLine(raw) ==
    IF ~Decodable(raw) THEN [act |-> "raise", value |-> None]
    ELSE LET line == Strip(raw) IN
         IF line = <<>> THEN [act |-> "skip", value |-> None]
         ELSE IF LooksLikeObject(line)
         THEN LET r == JsonLoads(line) IN
              IF r.ok THEN [act |-> "return", value |-> r.value]
              ELSE [act |-> "skip", value |-> None]
         ELSE [act |-> "skip", value |-> None]

\* ------------------------------------------------------ find_serial_port
\* A port's device path is a sequence of name pieces; `"USB" in port.device`
\* is a search for the piece.
Contains(device, piece) == \E i \in 1..Len(device) : device[i] = piece

NoPort == <<>>

RECURSIVE FindSerialPort(_)
FindSerialPort(ports) ==
    IF ports = <<>> THEN NoPort
    ELSE IF Contains(Head(ports), "USB") \/ Contains(Head(ports), "ACM")
    THEN Head(ports)
    ELSE FindSerialPort(Tail(ports))

\* What comports() may list.
PortLists ==
    { <<>>,
      << <<"/dev/tty", "S", "0">> >>,
      << <<"/dev/tty", "USB", "0">> >>,
      << <<"/dev/tty", "S", "0">>, <<"/dev/tty", "ACM", "0">> >> }

\* ------------------------------------------------------- command facade
ThresholdOps == {"set_on_threshold", "set_off_threshold"}

FacadeOps ==
    { "turn_relay_on", "turn_relay_off", "get_r_status", "get_o_temp",
      "get_i_temp", "get_s_pwr", "get_t_latest", "get_settings",
      "set_auto_mode", "set_manual_mode" } \cup ThresholdOps

\* The name a threshold route sends and expects echoed.
ThresholdName(op) ==
    IF op = "set_on_threshold" THEN "set_on_V" ELSE "set_off_V"

\* request.args.get('value'): <<>> is None, <<v>> the string v.
NoValue == <<>>

\* The string the route or the job passes to fetch_from_serial;
\* f'set_on_V {value}' is the name, a space and the value.
CommandOf(op, value) ==
    CASE op = "turn_relay_on" -> <<"r1">>
      [] op = "turn_relay_off" -> <<"r0">>
      [] op = "get_r_status" -> <<"r">>
      [] op = "get_o_temp" -> <<"o">>
      [] op = "get_i_temp" -> <<"i">>
      [] op = "get_s_pwr" -> <<"s">>
      [] op = "get_t_latest" -> <<"t">>
      [] op = "get_settings" -> <<"get_settings">>
      [] op = "set_auto_mode" -> <<"auto">>
      [] op = "set_manual_mode" -> <<"manual">>
      [] op \in ThresholdOps -> <<ThresholdName(op), " ", value[1]>>
      [] op = "store_temperature_data_job" -> <<"t">>
      [] op = "store_solar_data_job" -> <<"s">>

\* command.encode('utf-8') + b'\n'
Encode(command) == command \o <<"\n">>

\* An HTTP response: status code and JSON body.
Response(code, body) == [code |-> code, body |-> body]

NoResponse == Response(0, {})

Failed(msg) == Response(500, {<<"error", msg>>})

StatusError(code, msg) ==
    Response(code, {<<"status", "error">>, <<"message", msg>>})

StatusSuccess(k, v) == Response(200, {<<"status", "success">>, <<k, v>>})

\* The `if data and 'value' in data` routes.
ValueRoute(data, name) ==
    IF Truthy(data) /\ Has(data, "value")
    THEN Response(200, {<<name, Get(data, "value", "null")>>})
    ELSE Failed("Failed to fetch data")

SolarRoute(data) ==
    IF Truthy(data)
    THEN Response(200, { <<"voltage_V", Get(data, "voltage_V", "N/A")>>,
                         <<"current_mA", Get(data, "current_mA", "N/A")>>,
                         <<"power_mW", Get(data, "power_mW", "N/A")>> })
    ELSE Failed("Failed to fetch data")

TemperatureRoute(data) ==
    IF Truthy(data) /\ Has(data, "i_temp") /\ Has(data, "o_temp")
    THEN Response(200, { <<"indoor_temp_C", Get(data, "i_temp", "null")>>,
                         <<"outdoor_temp_C", Get(data, "o_temp", "null")>> })
    ELSE Failed("Failed to fetch one or more temperature readings")

SettingsRoute(data) ==
    IF Truthy(data) /\ Has(data, "relay_settings")
    THEN Response(200, {<<"relay_settings", Get(data, "relay_settings", "null")>>})
    ELSE Failed("Failed to fetch settings")

RelayRoute(data, want, msg, failmsg) ==
    IF Truthy(data) /\ Get(data, "value", "null") = want
    THEN StatusSuccess("message", msg)
    ELSE StatusError(500, failmsg)

\* set_auto_mode, set_manual_mode: the fetch result is not looked at.
ModeRoute(data, msg) == StatusSuccess("message", msg)

\* A threshold route that takes any reply for the echo.
ThresholdRouteAnyReply(data, name) ==
    IF Truthy(data)
    THEN StatusSuccess("new_value", Get(data, "value", "null"))
    ELSE StatusError(500, "Failed to set threshold")

ThresholdRoute(data, name) ==
    IF Truthy(data) /\ Get(data, "command", "null") = name
    THEN StatusSuccess("new_value", Get(data, "value", "null"))
    ELSE StatusError(500, "Failed to set threshold")

MissingValue == StatusError(400, "Missing 'value' parameter")

\* What the route returns once fetch_from_serial has returned `data`; a
\* scheduled job is no route and answers nothing.
Respond(op, data) ==
    CASE op = "turn_relay_on" ->
           RelayRoute(data, "ON", "Relay turned ON", "Failed to turn relay ON")
      [] op = "turn_relay_off" ->
           RelayRoute(data, "OFF", "Relay turned OFF", "Failed to turn relay OFF")
      [] op = "get_r_status" -> ValueRoute(data, "relay_status")
      [] op = "get_o_temp" -> ValueRoute(data, "outdoor")
      [] op = "get_i_temp" -> ValueRoute(data, "indoor")
      [] op = "get_s_pwr" -> SolarRoute(data)
      [] op = "get_t_latest" -> TemperatureRoute(data)
      [] op = "get_settings" -> SettingsRoute(data)
      [] op = "set_auto_mode" -> ModeRoute(data, "Automatic mode enabled")
      [] op = "set_manual_mode" -> ModeRoute(data, "Manual mode enabled")
      [] op \in ThresholdOps -> ThresholdRoute(data, ThresholdName(op))
      [] OTHER -> NoResponse

\* ------------------------------------------------------- device lines
\* `"key": value` members joined by commas.
RECURSIVE Join(_)
Join(ms) ==
    IF Len(ms) <= 1 THEN ms
    ELSE <<Head(ms), Tok(",")>> \o Join(Tail(ms))

\* A println of a JSON object: the object, "\r\n".
Obj(ms) == <<Tok("{")>> \o Join(ms) \o <<Tok("}"), Tok("\r"), NL>>

\* Object lines the device may send, each with the dict it denotes.
Replies ==
    { <<Obj(<<>>), {}>>,
      <<Obj(<<Mem("value", "ON")>>), {<<"value", "ON">>}>>,
      <<Obj(<<Mem("value", "OFF")>>), {<<"value", "OFF">>}>>,
      <<Obj(<<Mem("value", "ON"), Mem("value", "OFF")>>), {<<"value", "OFF">>}>>,
      <<<<Tok(" ")>> \o Obj(<<Mem("sensor", "i")>>), {<<"sensor", "i">>}>>,
      <<Obj(<<Mem("i_temp", "21.5"), Mem("o_temp", "9.0")>>),
        {<<"i_temp", "21.5">>, <<"o_temp", "9.0">>}>>,
      <<Obj(<<Mem("i_temp", "21.5")>>), {<<"i_temp", "21.5">>}>>,
      <<Obj(<<Mem("relay_settings", "{mode}")>>), {<<"relay_settings", "{mode}">>}>>,
      <<Obj(<<Mem("voltage_V", "12.1"), Mem("current_mA", "350"), Mem("power_mW", "4235")>>),
        {<<"voltage_V", "12.1">>, <<"current_mA", "350">>, <<"power_mW", "4235">>}>>,
      <<Obj(<<Mem("voltage_V", "12.1")>>), {<<"voltage_V", "12.1">>}>>,
      <<Obj(<<Mem("command", "set_on_V"), Mem("value", "12.6")>>),
        {<<"command", "set_on_V">>, <<"value", "12.6">>}>>,
      <<Obj(<<Mem("command", "set_off_V"), Mem("value", "11.0")>>),
        {<<"command", "set_off_V">>, <<"value", "11.0">>}>>,
      <<Obj(<<Mem("command", "set_on_V")>>), {<<"command", "set_on_V">>}>> }

ObjectLines == { r[1] : r \in Replies }

\* The dict an object line denotes.
Denotes(raw) == (CHOOSE r \in Replies : r[1] = raw)[2]

\* Lines that are no JSON object: b'' (a read that timed out), an empty
\* line, diagnostic text, a JSON number, text before an object, two
\* brace-wrapped lines that are no JSON, and an object cut off by the read
\* timeout.
NoiseLines ==
    { <<>>,
      <<Tok("\r"), NL>>,
      <<Tok("x"), Tok(" "), Tok("x"), NL>>,
      <<Tok("n"), NL>>,
      <<Tok("x"), Tok("{"), Mem("value", "ON"), Tok("}"), NL>>,
      <<Tok("{"), Tok("x"), Tok("}"), NL>>,
      <<Tok("{"), Mem("value", "ON"), Tok(","), Tok("}"), NL>>,
      <<Tok("{"), Mem("value", "ON")>> }

\* Lines holding bytes that are not UTF-8 (line noise, a reset at another
\* baud rate).
GarbledLines == { <<Tok("bad"), Tok("x"), NL>> }

DeviceLines == ObjectLines \cup NoiseLines \cup GarbledLines

\* readline returned a whole line (it ends with the terminator).
Terminated(raw) == raw # <<>> /\ raw[Len(raw)] = NL

\* ------------------------------------------- datetime.now().isoformat()
\* A reading of the wall clock: day of the month, hour, minute and
\* microsecond digit.  Year, month and second are the same in every
\* reading of the model and are left out of reading and text alike.
Instant(d, h, m, u) == [day |-> d, hour |-> h, minute |-> m, micro |-> u]

Digits == <<"0", "1", "2", "3", "4", "5", "6", "7", "8", "9">>

\* '%02d'
TwoDigits(n) == <<Digits[(n \div 10) + 1], Digits[(n % 10) + 1]>>

\* datetime.isoformat(): DDTHH:MM, and .f only when the microsecond is not 0.
IsoFormat(t) ==
    TwoDigits(t.day) \o <<"T">> \o TwoDigits(t.hour) \o <<":">>
      \o TwoDigits(t.minute)
      \o (IF t.micro = 0 THEN <<>> ELSE <<".", Digits[t.micro + 1]>>)

\* The code point of a character of an ISO timestamp.
CharCode(ch) ==
    CASE ch = "." -> 46
      [] ch = ":" -> 58
      [] ch = "T" -> 84
      [] OTHER -> 47 + (CHOOSE k \in 1..10 : Digits[k] = ch)

\* SQLite's `<=` on TEXT.
RECURSIVE StrLessOrEqual(_, _)
StrLessOrEqual(a, b) ==
    IF a = <<>> THEN TRUE
    ELSE IF b = <<>> THEN FALSE
    ELSE IF Head(a) = Head(b) THEN StrLessOrEqual(Tail(a), Tail(b))
    ELSE CharCode(Head(a)) < CharCode(Head(b))

\* SQLite's `<` on TEXT: bytewise, a proper prefix is the smaller.
RECURSIVE StrLess(_, _)
StrLess(a, b) ==
    IF b = <<>> THEN FALSE
    ELSE IF a = <<>> THEN TRUE
    ELSE IF Head(a) = Head(b) THEN StrLess(Tail(a), Tail(b))
    ELSE CharCode(Head(a)) < CharCode(Head(b))

\* timedelta(days=2)
RetentionDays == 2

\* datetime.now() - timedelta(days=n), within the month.
MinusDays(t, n) == [t EXCEPT !.day = @ - n]

\* ------------------------------------------------------ retention store
\* A table is the set of its rows.
TemperatureRow(ts, data) ==
    [ timestamp |-> ts,
      indoor_temp_C |-> Get(data, "i_temp", "null"),
      outdoor_temp_C |-> Get(data, "o_temp", "null") ]

SolarRow(ts, data) ==
    [ timestamp |-> ts,
      voltage_V |-> Get(data, "voltage_V", "null"),
      current_mA |-> Get(data, "current_mA", "null"),
      power_mW |-> Get(data, "power_mW", "null") ]

\* An INSERT into a table that has no primary key.
InsertPlain(table, row) == table \cup {row}

\* INSERT OR REPLACE into a table whose primary key is timestamp: the row
\* that has the key is deleted, the new one inserted.
InsertOrReplace(table, row) ==
    { r \in table : r.timestamp # row.timestamp } \cup {row}

\* DELETE ... WHERE timestamp <= ?
DeleteUpTo(table, cutoff_iso) ==
    { r \in table : ~StrLessOrEqual(r.timestamp, cutoff_iso) }

\* DELETE ... WHERE timestamp < ?
DeleteOlder(table, cutoff_iso) ==
    { r \in table : ~StrLess(r.timestamp, cutoff_iso) }

\* cursor.rowcount of a DELETE that turned `before` into `after`.
RowCount(before, after) == Cardinality(before) - Cardinality(after)

\* ------------------------------------------------------ scheduled jobs
PollJobs == {"store_temperature_data_job", "store_solar_data_job"}

IntervalJobs == {"store_temperature_data_job", "prune_old_data_job"}

Jobs == PollJobs \cup IntervalJobs

\* The fields a poll requires of its reply.
JobFields(op) ==
    IF op = "store_temperature_data_job" THEN {"i_temp", "o_temp"}
    ELSE {"voltage_V", "current_mA", "power_mW"}

\* A job that stores whatever reply it got.
HasAnyData(op, data) == Truthy(data)

\* `if data and 'i_temp' in data and 'o_temp' in data`
HasAllFields(op, data) ==
    Truthy(data) /\ \A f \in JobFields(op) : Has(data, f)

\* The cron fields hour='7-20' and minute='*/15'.
RangeExpr(lo, hi) == lo..hi

StepExpr(step, last) == { m \in 0..last : m % step = 0 }

\* The cron trigger of the solar job is due at t.
CronMatches(t) ==
    t.hour \in RangeExpr(7, 20) /\ t.minute \in StepExpr(15, 59)

\* A scheduler that lets two instances of a job run.
MaxInstancesTwo == 1 + 1

\* add_job without max_instances: one running instance per job.
MaxInstances == 1

\* ---------------------------------------------------------------- state
VARIABLES
    ser,          \* the global `ser`: 0 is None, n > 0 the n-th Serial object
    serial_lock,  \* 0 when free, else the thread holding it
    opened,       \* number of Serial objects created so far
    pc,           \* where each thread is
    local,        \* each thread's locals and what its call did so far
    now,                   \* what datetime.now() returns
    temperature_readings,  \* the rows of the table temperature_readings
    solar_readings,        \* the rows of the table solar_readings
    job,          \* each thread's locals of the scheduled job it runs
    sched,        \* the scheduler's books: running instances, firings
    pending,      \* commands the device has received and not answered yet
    rx,           \* the input buffer of the port: lines not read yet
    heard         \* for each thread, the exchange its last line answers

transport_vars == <<ser, serial_lock, opened, pc, local>>

store_vars == <<now, temperature_readings, solar_readings, job, sched>>

device_vars == <<pending, rx, heard>>

vars ==
    <<ser, serial_lock, opened, pc, local, now, temperature_readings,
      solar_readings, job, sched, pending, rx, heard>>

Outcomes ==
    { "Reply", "Unavailable", "Timeout", "LinkFailure",
      "AttributeError", "UnicodeDecodeError" }

Raised == {"AttributeError", "UnicodeDecodeError"}

\* op, value    : the route and its `value` argument
\* command      : the argument of fetch_from_serial
\* attempts     : calls of connect_to_serial made by this call
\* sent         : what this call wrote to the port, in order
\* elapsed      : time.time() - start_time, in seconds
\* line         : what the last readline returned
\* outcome/data : how fetch_from_serial ended and what it returned
\* result       : what the route returned
Idle ==
    [ op |-> "", value |-> NoValue, command |-> <<>>, attempts |-> 0,
      sent |-> <<>>, elapsed |-> 0, line |-> <<>>, outcome |-> "",
      data |-> None, result |-> NoResponse ]

\* The clock readings of the model: a quarter hour inside the daylight
\* hours, one in the evening, and a time that is no quarter hour.
Instants == { Instant(12, 7, 0, 0), Instant(12, 20, 15, 5), Instant(12, 21, 5, 0) }

NoInstant == Instant(0, 0, 0, 0)

NoRow == [timestamp |-> <<>>]

\* record, cutoff_iso, deleted_*_count : the job's locals of these names
\* at                                  : the clock reading the job took
NoJob ==
    [ at |-> NoInstant, record |-> NoRow, cutoff_iso |-> <<>>,
      deleted_temp_count |-> 0, deleted_solar_count |-> 0 ]

\* instances : running instances of each job
\* firings   : times a trigger fired so far
\* fired     : the job whose trigger fired last, "" before the first
\* skipped   : whether that run was skipped
NoFirings ==
    [ instances |-> [j \in Jobs |-> 0], firings |-> 0, fired |-> "",
      skipped |-> FALSE ]

\* connect_to_serial() of __main__ has run: `ser` is a port or None.
InitTransport ==
    /\ ser \in 0..1
    /\ opened = ser
    /\ serial_lock = 0
    /\ pc = [c \in Callers |-> "idle"]
    /\ local = [c \in Callers |-> Idle]

\* No job runs yet.
InitScheduler ==
    /\ job = [c \in Callers |-> NoJob]
    /\ sched = NoFirings

\* own  : the number of the command the thread wrote, 0 before the write
\* line : the number of the command that the line it read last answers
NoExchange == [own |-> 0, line |-> 0]

\* The device owes no reply and the input buffer is empty.
InitDevice ==
    /\ pending = <<>>
    /\ rx = <<>>
    /\ heard = [c \in Callers |-> NoExchange]

\* A first start: setup_database() has created the two tables, empty.
Init ==
    /\ InitTransport
    /\ InitScheduler
    /\ InitDevice
    /\ now = Instant(12, 7, 0, 0)
    /\ temperature_readings = {}
    /\ solar_readings = {}

\* A test that takes an open port for a closed one: `not ser or ser.is_open`.
DisconnectedOrOpen == ser = 0 \/ ser # 0

\* `not ser or not ser.is_open`, taken as one read of `ser`.  Nothing
\* closes a Serial object that `ser` still names, so is_open is true of
\* every object `ser` can name.
Disconnected == ser = 0

\* fetch_from_serial returns `data`: the route computes its response.
Return(c, how, data) ==
    /\ pc' = [pc EXCEPT ![c] = "done"]
    /\ local' = [local EXCEPT ![c].outcome = how, ![c].data = data,
                              ![c].result = Respond(local[c].op, data)]

\* An exception that nothing catches leaves fetch_from_serial and the route.
Propagate(c, exc) ==
    /\ pc' = [pc EXCEPT ![c] = "done"]
    /\ local' = [local EXCEPT ![c].outcome = exc]

\* The same two out of the read loop, at time t with `raw` just read.
ReturnLine(c, raw, t, how, data) ==
    /\ pc' = [pc EXCEPT ![c] = "done"]
    /\ local' = [local EXCEPT ![c].line = raw, ![c].elapsed = t,
                              ![c].outcome = how, ![c].data = data,
                              ![c].result = Respond(local[c].op, data)]

PropagateLine(c, raw, t, exc) ==
    /\ pc' = [pc EXCEPT ![c] = "done"]
    /\ local' = [local EXCEPT ![c].line = raw, ![c].elapsed = t,
                              ![c].outcome = exc]

\* The requests a set of routes can receive.
Requests(ops) ==
    { <<op, NoValue>> : op \in ops } \cup
    { <<op, <<"12.6">>>> : op \in ops \cap ThresholdOps }

\* A route is entered; a threshold route without `value` answers 400 at
\* once, any other calls fetch_from_serial, which tests `ser` first.
Invoke(c, ops) ==
    /\ pc[c] = "idle"
    /\ \E rq \in Requests(ops) :
         IF rq[1] \in ThresholdOps /\ rq[2] = NoValue
         THEN /\ pc' = [pc EXCEPT ![c] = "done"]
              /\ local' = [local EXCEPT ![c].op = rq[1], ![c].value = rq[2],
                                        ![c].result = MissingValue]
         ELSE /\ pc' = [pc EXCEPT ![c] = IF Disconnected THEN "find" ELSE "lock"]
              /\ local' = [local EXCEPT ![c].op = rq[1], ![c].value = rq[2],
                                        ![c].command = CommandOf(rq[1], rq[2])]
    /\ UNCHANGED <<ser, serial_lock, opened>>

\* A connect that looks for the port a second time before it gives up.
FindTwice(c) ==
    /\ pc[c] = "find"
    /\ \E ports \in PortLists :
         IF FindSerialPort(ports) = NoPort /\ local[c].attempts >= 1
         THEN /\ pc' = [pc EXCEPT ![c] = "done"]
              /\ local' = [local EXCEPT ![c].attempts = @ + 1,
                                        ![c].outcome = "Unavailable",
                                        ![c].data = None,
                                        ![c].result = Respond(local[c].op, None)]
         ELSE IF FindSerialPort(ports) = NoPort
         THEN /\ local' = [local EXCEPT ![c].attempts = @ + 1]
              /\ UNCHANGED pc
         ELSE /\ pc' = [pc EXCEPT ![c] = "open"]
              /\ local' = [local EXCEPT ![c].attempts = @ + 1]
    /\ UNCHANGED <<ser, serial_lock, opened>>

\* connect_to_serial is entered: find_serial_port.
Find(c) ==
    /\ pc[c] = "find"
    /\ \E ports \in PortLists :
         IF FindSerialPort(ports) = NoPort
         THEN /\ pc' = [pc EXCEPT ![c] = "done"]
              /\ local' = [local EXCEPT ![c].attempts = @ + 1,
                                        ![c].outcome = "Unavailable",
                                        ![c].data = None,
                                        ![c].result = Respond(local[c].op, None)]
         ELSE /\ pc' = [pc EXCEPT ![c] = "open"]
              /\ local' = [local EXCEPT ![c].attempts = @ + 1]
    /\ UNCHANGED <<ser, serial_lock, opened>>

\* ser = serial.Serial(...), or SerialException: ser = None, return False.
Open(c) ==
    /\ pc[c] = "open"
    /\ \/ /\ opened < MaxOpens
          /\ opened' = opened + 1
          /\ ser' = opened + 1
          /\ pc' = [pc EXCEPT ![c] = "settle"]
          /\ UNCHANGED local
       \/ /\ ser' = 0
          /\ Return(c, "Unavailable", None)
          /\ UNCHANGED opened
    /\ UNCHANGED serial_lock

\* time.sleep(2); ser.flushInput() of connect_to_serial, on whatever `ser`
\* names by then.
Settle(c) ==
    /\ pc[c] = "settle"
    /\ \/ /\ ser = 0
          /\ Propagate(c, "AttributeError")
          /\ UNCHANGED ser
       \/ /\ ser # 0
          /\ pc' = [pc EXCEPT ![c] = "lock"]
          /\ UNCHANGED <<ser, local>>
       \/ /\ ser # 0
          /\ ser' = 0
          /\ Return(c, "Unavailable", None)
    /\ UNCHANGED <<serial_lock, opened>>

\* A `with` that does not wait for the lock.
LockFreeNoWait == TRUE

\* `with serial_lock:` blocks until the lock is free.
LockFree == serial_lock = 0

Acquire(c) ==
    /\ pc[c] = "lock"
    /\ LockFree
    /\ serial_lock' = c
    /\ pc' = [pc EXCEPT ![c] = "flush"]
    /\ UNCHANGED <<ser, opened, local>>

\* A lock taken with acquire() and not released when the block is left.
ReleaseForgotten == serial_lock' = serial_lock

\* The `with serial_lock` block is left, by a return or by an exception:
\* the lock is released.
Release == serial_lock' = 0

\* An except clause that returns None and keeps the broken connection.
LinkFailureKeepsSer(c) ==
    /\ ser' = ser
    /\ Return(c, "LinkFailure", None)

\* The except clause of fetch_from_serial: ser = None; return None.
LinkFailure(c) ==
    /\ ser' = 0
    /\ Return(c, "LinkFailure", None)

\* ser.flushInput() under the lock.
FlushInput(c) ==
    /\ pc[c] = "flush"
    /\ \/ /\ ser = 0
          /\ Propagate(c, "AttributeError")
          /\ Release
          /\ UNCHANGED ser
       \/ /\ ser # 0
          /\ pc' = [pc EXCEPT ![c] = "write"]
          /\ UNCHANGED <<ser, serial_lock, local>>
       \/ /\ ser # 0
          /\ LinkFailure(c)
          /\ Release
    /\ UNCHANGED opened

\* ser.write(command + b'\n'); time.sleep(0.1); start_time = time.time()
Write(c) ==
    /\ pc[c] = "write"
    /\ \/ /\ ser = 0
          /\ Propagate(c, "AttributeError")
          /\ Release
          /\ UNCHANGED ser
       \/ /\ ser # 0
          /\ pc' = [pc EXCEPT ![c] = "read"]
          /\ local' = [local EXCEPT ![c].sent = @ \o Encode(local[c].command),
                                    ![c].elapsed = 0]
          /\ UNCHANGED <<ser, serial_lock>>
       \/ /\ ser # 0
          /\ LinkFailure(c)
          /\ Release
    /\ UNCHANGED opened

\* A loop that still reads when the deadline is reached.
LoopContinuesAtDeadline(elapsed) == elapsed <= DATA_TIMEOUT

\* while time.time() - start_time < DATA_TIMEOUT
LoopContinues(elapsed) == elapsed < DATA_TIMEOUT

\* One iteration of the read loop and the test of the loop condition that
\* follows it.  readline returns the bytes `raw` after `d` seconds: a whole
\* line as soon as it is there, anything else when the read timeout is up.
\* `lines` and `delays` are what the device may send and how long a line
\* may take.
ReadLine(c, lines, delays) ==
    /\ pc[c] = "read"
    /\ \/ /\ ser = 0
          /\ Propagate(c, "AttributeError")
          /\ Release
          /\ UNCHANGED ser
       \/ /\ ser # 0
          /\ LinkFailure(c)
          /\ Release
       \/ /\ ser # 0
          /\ \E raw \in lines, d \in delays \cup {ReadTimeout} :
               /\ ~Terminated(raw) => d = ReadTimeout
               /\ LET r == ClassifyLine(raw)
                      t == local[c].elapsed + d
                  IN
                  CASE r.act = "raise" ->
                         /\ PropagateLine(c, raw, t, "UnicodeDecodeError")
                         /\ Release
                    [] r.act = "return" ->
                         /\ ReturnLine(c, raw, t, "Reply", r.value)
                         /\ Release
                    [] r.act = "skip" /\ LoopContinues(t) ->
                         /\ local' = [local EXCEPT ![c].line = raw,
                                                   ![c].elapsed = t]
                         /\ UNCHANGED <<pc, serial_lock>>
                    [] r.act = "skip" /\ ~LoopContinues(t) ->
                         /\ ReturnLine(c, raw, t, "Timeout", None)
                         /\ Release
          /\ UNCHANGED ser
    /\ UNCHANGED opened

\* The route has answered; the thread serves the next request.
Finish(c) ==
    /\ pc[c] = "done"
    /\ pc' = [pc EXCEPT ![c] = "idle"]
    /\ local' = [local EXCEPT ![c] = Idle]
    /\ UNCHANGED <<ser, serial_lock, opened>>

\* ------------------------------------------------- scheduler and jobs
\* Triggers the model lets fire.
MaxFirings == 2

\* t1 is earlier than t2.
Before(t1, t2) ==
    LET a == <<t1.day, t1.hour, t1.minute, t1.micro>>
        b == <<t2.day, t2.hour, t2.minute, t2.micro>>
    IN \E i \in 1..4 : a[i] < b[i] /\ \A k \in 1..(i - 1) : a[k] = b[k]

\* The wall clock moves on.
Tick ==
    /\ now' \in { t \in Instants : Before(now, t) }
    /\ UNCHANGED <<transport_vars, device_vars>>
    /\ UNCHANGED <<temperature_readings, solar_readings, job, sched>>

\* The scheduler's books after a firing of j.
Fired(j, run) ==
    [ sched EXCEPT !.firings = @ + 1,
                   !.fired = j,
                   !.skipped = ~run,
                   !.instances[j] = IF run THEN @ + 1 ELSE @ ]

\* The trigger of job j fires.  With max_instances instances of j running
\* the run is skipped; otherwise a thread of the pool starts the job: a
\* poll calls fetch_from_serial, the prune starts on its own.
Fire(j) ==
    /\ sched.firings < MaxFirings
    /\ j = "store_solar_data_job" => CronMatches(now)
    /\ IF sched.instances[j] >= MaxInstances
       THEN /\ sched' = Fired(j, FALSE)
            /\ UNCHANGED <<transport_vars, job>>
       ELSE /\ sched' = Fired(j, TRUE)
            /\ \E c \in Callers :
                 IF j \in PollJobs
                 THEN Invoke(c, {j})
                 ELSE /\ pc[c] = "idle"
                      /\ pc' = [pc EXCEPT ![c] = "prune"]
                      /\ local' = [local EXCEPT ![c].op = j]
                      /\ UNCHANGED <<ser, serial_lock, opened>>
            /\ UNCHANGED job
    /\ UNCHANGED <<now, temperature_readings, solar_readings, device_vars>>

\* The job function returns, or an exception has left it: the thread goes
\* back to the pool and the scheduler counts one running instance less.
Released(c) ==
    /\ pc' = [pc EXCEPT ![c] = "idle"]
    /\ local' = [local EXCEPT ![c] = Idle]
    /\ sched' = [sched EXCEPT !.instances[local[c].op] = @ - 1]

\* fetch_from_serial has returned to a poll: the test of the reply's fields
\* and, when it passes, the record with datetime.now().isoformat(); when it
\* fails the job prints that and returns.
Record(c) ==
    /\ pc[c] = "done"
    /\ local[c].op \in PollJobs
    /\ local[c].outcome \notin Raised
    /\ IF HasAllFields(local[c].op, local[c].data)
       THEN /\ pc' = [pc EXCEPT ![c] = "insert"]
            /\ job' = [job EXCEPT
                 ![c].at = now,
                 ![c].record =
                     IF local[c].op = "store_temperature_data_job"
                     THEN TemperatureRow(IsoFormat(now), local[c].data)
                     ELSE SolarRow(IsoFormat(now), local[c].data)]
            /\ UNCHANGED <<local, sched>>
       ELSE /\ Released(c)
            /\ UNCHANGED job
    /\ UNCHANGED <<ser, serial_lock, opened, device_vars>>
    /\ UNCHANGED <<now, temperature_readings, solar_readings>>

\* INSERT OR REPLACE, commit, close; the job returns.
Upsert(c) ==
    /\ pc[c] = "insert"
    /\ IF local[c].op = "store_temperature_data_job"
       THEN /\ temperature_readings' =
                  InsertOrReplace(temperature_readings, job[c].record)
            /\ UNCHANGED solar_readings
       ELSE /\ solar_readings' = InsertOrReplace(solar_readings, job[c].record)
            /\ UNCHANGED temperature_readings
    /\ Released(c)
    /\ job' = [job EXCEPT ![c] = NoJob]
    /\ UNCHANGED <<ser, serial_lock, opened, device_vars>>
    /\ UNCHANGED now

\* cutoff_iso = (datetime.now() - timedelta(days=2)).isoformat()
Cutoff(c) ==
    /\ pc[c] = "prune"
    /\ pc' = [pc EXCEPT ![c] = "delete"]
    /\ job' = [job EXCEPT ![c].at = now,
                          ![c].cutoff_iso = IsoFormat(MinusDays(now, RetentionDays))]
    /\ UNCHANGED <<ser, serial_lock, opened, local, device_vars>>
    /\ UNCHANGED <<now, temperature_readings, solar_readings, sched>>

\* The two DELETEs, their rowcounts, and commit.
Delete(c) ==
    /\ pc[c] = "delete"
    /\ temperature_readings' =
          DeleteOlder(temperature_readings, job[c].cutoff_iso)
    /\ solar_readings' = DeleteOlder(solar_readings, job[c].cutoff_iso)
    /\ job' = [job EXCEPT
         ![c].deleted_temp_count =
             RowCount(temperature_readings, temperature_readings'),
         ![c].deleted_solar_count = RowCount(solar_readings, solar_readings')]
    /\ pc' = [pc EXCEPT ![c] = "pruned"]
    /\ UNCHANGED <<ser, serial_lock, opened, local, device_vars>>
    /\ UNCHANGED <<now, sched>>

\* The prune has printed its counts and returns, or an exception has left a
\* poll's fetch_from_serial and with it the job.
FinishJob(c) ==
    /\ \/ pc[c] = "pruned"
       \/ pc[c] = "done" /\ local[c].op \in PollJobs /\ local[c].outcome \in Raised
    /\ Released(c)
    /\ job' = [job EXCEPT ![c] = NoJob]
    /\ UNCHANGED <<ser, serial_lock, opened, device_vars>>
    /\ UNCHANGED <<now, temperature_readings, solar_readings>>

\* ----------------------------------------------------------- the device
\* The device answers every command it has received, in order, with one
\* object line; the line lands in the input buffer of the port.  Commands
\* are numbered as they are written so that a line can be told from the
\* answer to another command.

\* Commands the device keeps while it is busy; one more overruns its
\* receive buffer and the oldest is lost.
MaxPending == 1

\* The numbers of the commands still spoken of somewhere.
UsedNumbers ==
    { pending[i] : i \in 1..Len(pending) } \cup
    { rx[i].re : i \in 1..Len(rx) } \cup
    { heard[c].own : c \in Callers }

\* The number given to the next command written.
FreshNumber ==
    CHOOSE n \in 1..(2 * MaxPending + NumCallers + 1) :
       /\ n \notin UsedNumbers
       /\ \A k \in 1..(n - 1) : k \in UsedNumbers

\* The device's queue after it received command n.
Received(n) ==
    LET q == Append(pending, n) IN
    IF Len(q) > MaxPending THEN Tail(q) ELSE q

\* The device answers the oldest command it has.
DeviceAnswer ==
    /\ pending # <<>>
    /\ rx' = Append(rx, [line |-> Obj(<<Mem("value", "ON")>>), re |-> Head(pending)])
    /\ pending' = Tail(pending)
    /\ UNCHANGED <<transport_vars, store_vars, heard>>

\* A step of fetch_from_serial that does not touch the port's buffers.
PortIdle == UNCHANGED <<store_vars, device_vars>>

\* serial.Serial(...): the new port starts with an empty input buffer.
OpenPort(c) ==
    /\ Open(c)
    /\ rx' = IF pc'[c] = "settle" THEN <<>> ELSE rx
    /\ UNCHANGED <<store_vars, pending, heard>>

\* ser.flushInput() of connect_to_serial discards what is buffered.
SettlePort(c) ==
    /\ Settle(c)
    /\ rx' = IF pc'[c] = "lock" THEN <<>> ELSE rx
    /\ UNCHANGED <<store_vars, pending, heard>>

\* ser.flushInput() of fetch_from_serial discards what is buffered.
FlushPort(c) ==
    /\ FlushInput(c)
    /\ rx' = IF pc'[c] = "write" THEN <<>> ELSE rx
    /\ UNCHANGED <<store_vars, pending, heard>>

\* ser.write: the device receives the command.
WritePort(c) ==
    /\ Write(c)
    /\ IF pc'[c] = "read"
       THEN /\ pending' = Received(FreshNumber)
            /\ heard' = [heard EXCEPT ![c] = [own |-> FreshNumber, line |-> 0]]
       ELSE UNCHANGED <<pending, heard>>
    /\ UNCHANGED <<store_vars, rx>>

\* ser.readline() takes the oldest line of the buffer, or nothing when the
\* buffer stays empty until the read timeout.
ReadPort(c, delays) ==
    /\ ReadLine(c, IF rx = <<>> THEN {<<>>} ELSE {rx[1].line}, delays)
    /\ IF local'[c].outcome \in {"LinkFailure", "AttributeError"}
       THEN UNCHANGED <<rx, heard>>
       ELSE /\ rx' = IF rx = <<>> THEN rx ELSE Tail(rx)
            /\ heard' = [heard EXCEPT
                 ![c].line = IF rx = <<>> THEN 0 ELSE rx[1].re]
    /\ UNCHANGED <<store_vars, pending>>

\* The route has answered.
FinishPort(c) ==
    /\ Finish(c)
    /\ heard' = [heard EXCEPT ![c] = NoExchange]
    /\ UNCHANGED <<store_vars, pending, rx>>

\* ------------------------------------------------------- specifications
\* The concurrent specification: every thread serves /r/latest, and the
\* device sends text, as its interface says.
SpecOps == {"get_r_status"}

SpecLines ==
    { <<>>, <<Tok("x"), Tok(" "), Tok("x"), NL>>, Obj(<<Mem("value", "ON")>>) }

\* Seconds a line takes to arrive when it does not take the whole timeout.
SpecDelays == {3}

AllDelays == 1..ReadTimeout

\* A step of a request leaves the store, the scheduler and the device model
\* as they are.
RequestsOnly == UNCHANGED <<store_vars, device_vars>>

Next ==
    \E c \in Callers :
       \/ Invoke(c, SpecOps) /\ RequestsOnly
       \/ Find(c) /\ RequestsOnly
       \/ Open(c) /\ RequestsOnly
       \/ Settle(c) /\ RequestsOnly
       \/ Acquire(c) /\ RequestsOnly
       \/ FlushInput(c) /\ RequestsOnly
       \/ Write(c) /\ RequestsOnly
       \/ ReadLine(c, SpecLines, SpecDelays) /\ RequestsOnly
       \/ Finish(c) /\ RequestsOnly

Spec == Init /\ [][Next]_vars

\* One request at a time, over the whole facade vocabulary and every line.
NextFacade ==
    \/ Invoke(1, FacadeOps) /\ RequestsOnly
    \/ Find(1) /\ RequestsOnly
    \/ Open(1) /\ RequestsOnly
    \/ Settle(1) /\ RequestsOnly
    \/ Acquire(1) /\ RequestsOnly
    \/ FlushInput(1) /\ RequestsOnly
    \/ Write(1) /\ RequestsOnly
    \/ ReadLine(1, DeviceLines, AllDelays) /\ RequestsOnly
    \/ Finish(1) /\ RequestsOnly

SpecFacade == Init /\ [][NextFacade]_vars

\* The concurrent specification under fair scheduling: a thread inside
\* fetch_from_serial goes on running, and a thread that waits for
\* serial_lock gets it if it is free again and again.  Requests need not
\* arrive and a thread need not serve another.
Fairness ==
    \A c \in Callers :
       /\ WF_vars(Find(c) /\ RequestsOnly)
       /\ WF_vars(Open(c) /\ RequestsOnly)
       /\ WF_vars(Settle(c) /\ RequestsOnly)
       /\ SF_vars(Acquire(c) /\ RequestsOnly)
       /\ WF_vars(FlushInput(c) /\ RequestsOnly)
       /\ WF_vars(Write(c) /\ RequestsOnly)
       /\ WF_vars(ReadLine(c, SpecLines, SpecDelays) /\ RequestsOnly)

SpecLive == Init /\ [][Next]_vars /\ Fairness

\* What the device sends to a poll: nothing, the temperatures (two
\* measurements), one temperature alone, and the solar values.
JobLines ==
    { <<>>,
      Obj(<<Mem("i_temp", "21.5"), Mem("o_temp", "9.0")>>),
      Obj(<<Mem("i_temp", "22.0"), Mem("o_temp", "9.0")>>),
      Obj(<<Mem("i_temp", "21.5")>>),
      Obj(<<Mem("voltage_V", "12.1"), Mem("current_mA", "350"), Mem("power_mW", "4235")>>) }

\* Rows that earlier runs of the program left in temperature_readings: three
\* days, exactly two days and one hour before the evening reading, and two
\* days before the morning one.
OldInstants ==
    { Instant(9, 20, 15, 5), Instant(10, 20, 15, 5), Instant(12, 19, 15, 5),
      Instant(10, 7, 0, 0) }

OldTemperatureRows ==
    { [timestamp |-> IsoFormat(t), indoor_temp_C |-> "20.0",
       outdoor_temp_C |-> "8.0"] : t \in OldInstants }

OldSolarRows ==
    { [timestamp |-> IsoFormat(t), voltage_V |-> "12.0", current_mA |-> "300",
       power_mW |-> "3600"] : t \in {Instant(9, 20, 15, 5), Instant(12, 19, 15, 5)} }

\* The program starts on the database file of earlier runs.
InitJobs ==
    /\ InitTransport
    /\ InitScheduler
    /\ InitDevice
    /\ now = Instant(12, 7, 0, 0)
    /\ temperature_readings = OldTemperatureRows
    /\ solar_readings = OldSolarRows

\* A step of a job's exchange leaves store, scheduler and device model alone.
JobExchange == UNCHANGED <<store_vars, device_vars>>

NextJobs ==
    \/ Tick
    \/ \E j \in Jobs : Fire(j)
    \/ \E c \in Callers :
          \/ Find(c) /\ JobExchange
          \/ Open(c) /\ JobExchange
          \/ Settle(c) /\ JobExchange
          \/ Acquire(c) /\ JobExchange
          \/ FlushInput(c) /\ JobExchange
          \/ Write(c) /\ JobExchange
          \/ ReadLine(c, JobLines, {}) /\ JobExchange
          \/ Record(c)
          \/ Upsert(c)
          \/ Cutoff(c)
          \/ Delete(c)
          \/ FinishJob(c)

SpecJobs == InitJobs /\ [][NextJobs]_vars

\* Requests against the device that answers late or in time.
NextDevice ==
    \/ DeviceAnswer
    \/ \E c \in Callers :
          \/ Invoke(c, SpecOps) /\ PortIdle
          \/ Find(c) /\ PortIdle
          \/ OpenPort(c)
          \/ SettlePort(c)
          \/ Acquire(c) /\ PortIdle
          \/ FlushPort(c)
          \/ WritePort(c)
          \/ ReadPort(c, SpecDelays)
          \/ FinishPort(c)

SpecDevice == Init /\ [][NextDevice]_vars

\* ----------------------------------------------------------- properties
\* The command-write / reply-read cycle: the body of `with serial_lock`.
InCycle == {"flush", "write", "read"}

\* Thread c takes a step of fetch_from_serial that operates on the port.
Opens(c) == pc[c] = "open" /\ pc'[c] # "open"

Settles(c) == pc[c] = "settle" /\ pc'[c] # "settle"

LinkStep(c) ==
    \/ Opens(c)
    \/ Settles(c)
    \/ pc[c] \in InCycle /\ <<pc[c], local[c]>> # <<pc'[c], local'[c]>>

\* Thread c's call ends in this step with the outcome `how`.
Ends(c, how) ==
    pc[c] \notin {"idle", "done"} /\ pc'[c] = "done" /\ local'[c].outcome = how

\* C1: at most one thread is inside the command-write / reply-read cycle,
\* and it is the thread that holds serial_lock; while one is inside, no other
\* thread has passed the lock, so none writes its command before the first
\* has left the cycle.
C1_OneExchangeInFlight ==
    /\ Cardinality({c \in Callers : pc[c] \in InCycle}) <= 1
    /\ \A c \in Callers : pc[c] \in InCycle <=> serial_lock = c

\* C1 witness: one thread waits for its reply while another, its connection
\* test passed, waits at the lock.
C1_Witness ==
    \E c, d \in Callers : c # d /\ pc[c] = "read" /\ pc[d] = "lock"

\* C2: while one exchange is between its command write and its return, no
\* other exchange performs a port operation: it opens no port, runs no
\* settle-and-flush of a connect, and flushes, writes and reads nothing.
C2_NoInterleavedLinkOperations ==
    [][\A c, d \in Callers :
         (c # d /\ pc[d] = "read") => ~LinkStep(c)]_vars

\* C3: a call that ends Unavailable (no port found, or the open or its
\* flush failed) made exactly one connect attempt, wrote nothing, returned
\* None, and its last step leaves the transport disconnected: it turns `ser`
\* to None or leaves a None `ser` as it is, and never connects it.
C3_UnavailableLeavesDisconnected ==
    [][\A c \in Callers :
         Ends(c, "Unavailable") =>
            /\ local'[c].attempts = 1
            /\ local'[c].sent = <<>>
            /\ local'[c].data = None
            /\ ser' \in {0, ser}
            /\ Disconnected => ser' = 0
            /\ serial_lock' = serial_lock]_vars

\* C3 witness: a call has ended Unavailable and the transport is
\* disconnected.
C3_Witness ==
    \E c \in Callers :
       /\ pc[c] = "done"
       /\ local[c].outcome = "Unavailable"
       /\ local[c].attempts = 1
       /\ Disconnected

\* C6: a call that ends in LinkFailure leaves `ser` None and the lock free,
\* returns None, and has connected at most once and written its command at
\* most once; no call ever connects twice or writes twice; and `ser` goes
\* from None to a connection only in the connect step of a call that has
\* written nothing yet, the step a call takes right after finding `ser` None.
C6_LinkFailureDisconnectsWithoutRetry ==
    /\ [](\A c \in Callers :
            /\ local[c].attempts <= 1
            /\ local[c].sent \in {<<>>, Encode(local[c].command)})
    /\ [][\A c \in Callers :
            Ends(c, "LinkFailure") =>
               /\ ser' = 0
               /\ serial_lock' = 0
               /\ local'[c].data = None]_vars
    /\ [][(ser = 0 /\ ser' # 0) =>
            \E c \in Callers :
               /\ Opens(c)
               /\ local[c].attempts = 1
               /\ local[c].sent = <<>>
               /\ local[c].outcome = ""]_vars

\* C6 witness: a call that wrote its command has ended in LinkFailure and
\* `ser` is None.
C6_Witness ==
    \E c \in Callers :
       /\ pc[c] = "done"
       /\ local[c].outcome = "LinkFailure"
       /\ local[c].sent # <<>>
       /\ Disconnected

\* C7: every call of fetch_from_serial ends by returning a value; none ends
\* in an exception that leaves the function.
C7_NoUncaughtError ==
    \A c \in Callers : pc[c] = "done" => local[c].outcome \notin Raised

\* C4: a call that read lines returned a Reply exactly when the last line
\* it read is a JSON object line, and then returned the dict that line
\* denotes; every line read before it was no object line; and no line that
\* is not an object line ended the exchange.
C4_FirstObjectLineReturned ==
    \A c \in Callers :
       /\ pc[c] = "read" => local[c].line \notin ObjectLines
       /\ pc[c] = "done" /\ local[c].sent # <<>> =>
            /\ local[c].outcome = "Reply" <=> local[c].line \in ObjectLines
            /\ local[c].outcome = "Reply" =>
                 local[c].data = Dict(Denotes(local[c].line))
            /\ local[c].outcome # "UnicodeDecodeError"

TransportFailures == {"Unavailable", "Timeout", "LinkFailure"}

\* C8: an operation whose exchange ended Unavailable, Timeout or
\* LinkFailure does not report success.
C8_TransportFailureIsOperationFailure ==
    \A c \in Callers :
       (pc[c] = "done" /\ local[c].outcome \in TransportFailures)
       => local[c].result.code # 200

\* The reply fields each operation expects.
ExpectedFields(op) ==
    CASE op \in {"get_i_temp", "get_o_temp", "get_r_status"} -> {"value"}
      [] op = "get_t_latest" -> {"i_temp", "o_temp"}
      [] op = "get_settings" -> {"relay_settings"}
      [] op = "get_s_pwr" -> {"voltage_V", "current_mA", "power_mW"}
      [] op \in ThresholdOps -> {"command"}
      [] OTHER -> {}

\* C9: an operation whose Reply lacks one of the fields it expects does not
\* report success.
C9_MissingFieldIsOperationFailure ==
    \A c \in Callers :
       (/\ pc[c] = "done"
        /\ local[c].outcome = "Reply"
        /\ \E f \in ExpectedFields(local[c].op) : ~Has(local[c].data, f))
       => local[c].result.code # 200

\* C10: a threshold route without `value` answers 400 and starts no
\* exchange (no connect, nothing written, `ser`, the lock and the count of
\* opened ports as they were); with a value v it writes nothing but
\* "<name> v\n", answers success exactly when the exchange returned a Reply
\* whose command field is <name>, with the reply's value as new_value, and
\* answers 500 to every other Reply.
C10_ThresholdEcho ==
    /\ [](\A c \in Callers :
            (pc[c] = "done" /\ local[c].op \in ThresholdOps) =>
               LET l == local[c]
                   name == ThresholdName(l.op)
                   echoed == /\ l.outcome = "Reply"
                             /\ <<"command", name>> \in l.data.d
               IN
               IF l.value = NoValue
               THEN /\ l.result.code = 400
                    /\ l.outcome = ""
                    /\ l.attempts = 0
                    /\ l.sent = <<>>
               ELSE /\ l.sent \in {<<>>, <<name, " ", l.value[1], "\n">>}
                    /\ l.outcome = "Reply" => l.sent # <<>>
                    /\ l.result.code = 200 <=> echoed
                    /\ echoed =>
                         \E p \in l.result.body :
                            /\ p[1] = "new_value"
                            /\ \/ <<"value", p[2]>> \in l.data.d
                               \/ p[2] = "null" /\ ~Has(l.data, "value")
                    /\ l.outcome = "Reply" /\ ~echoed => l.result.code = 500)
    /\ [][\A c \in Callers :
            (pc[c] = "idle" /\ pc'[c] = "done") =>
               UNCHANGED <<ser, serial_lock, opened>>]_vars

\* C10 witness: set_on_V 12.6 was echoed and the route answered success
\* with new_value 12.6.
C10_Witness ==
    \E c \in Callers :
       /\ pc[c] = "done"
       /\ local[c].op = "set_on_threshold"
       /\ local[c].sent = <<"set_on_V", " ", "12.6", "\n">>
       /\ local[c].result = StatusSuccess("new_value", "12.6")

\* ------------------------------------------- properties of the jobs
Temperature == "store_temperature_data_job"

Solar == "store_solar_data_job"

\* No two rows of the table have the same timestamp.
KeyUnique(table) ==
    \A r1, r2 \in table : r1.timestamp = r2.timestamp => r1 = r2

\* Thread c commits the upsert of its record in this step.
Upserts(c) == pc[c] = "insert" /\ pc'[c] # "insert"

\* The rows of a table that are keyed ts.
Keyed(table, ts) == { r \in table : r.timestamp = ts }

\* The table grew, at most, by the row `row`, and lost nothing keyed
\* otherwise.
UpsertedInto(before, after, row) ==
    /\ Keyed(after, row.timestamp) = {row}
    /\ after \ Keyed(after, row.timestamp) = before \ Keyed(before, row.timestamp)

\* C11: in every state each series holds at most one row per timestamp; and
\* an upsert of a record keyed T leaves exactly one row keyed T in its
\* series, the record just upserted (whatever row was keyed T before), every
\* row keyed otherwise as it was, and the other series unchanged.
C11_UpsertKeepsOneRowPerTimestamp ==
    /\ [](KeyUnique(temperature_readings) /\ KeyUnique(solar_readings))
    /\ [][\A c \in Callers :
            Upserts(c) =>
               IF local[c].op = Temperature
               THEN /\ UpsertedInto(temperature_readings, temperature_readings',
                                    job[c].record)
                    /\ solar_readings' = solar_readings
               ELSE /\ UpsertedInto(solar_readings, solar_readings', job[c].record)
                    /\ temperature_readings' = temperature_readings]_vars

\* C11 witness: a reading keyed T is in the series and a poll is about to
\* upsert a record keyed T with other values, while the other series has
\* rows of its own.
C11_Witness ==
    \E c \in Callers :
       /\ pc[c] = "insert"
       /\ local[c].op = Temperature
       /\ \E r \in temperature_readings :
            /\ r.timestamp = job[c].record.timestamp
            /\ r.indoor_temp_C = "21.5"
            /\ job[c].record.indoor_temp_C = "22.0"
       /\ solar_readings # {}

\* The clock readings that rows of the model are keyed by.
KnownInstants == Instants \cup OldInstants

\* The clock reading an ISO timestamp was formatted from.
InstantOf(ts) == CHOOSE t \in KnownInstants : IsoFormat(t) = ts

\* The rows of a table taken before the reading t.
TakenBefore(table, t) == { r \in table : Before(InstantOf(r.timestamp), t) }

\* C12: the delete step of a prune that read the clock at `at` removes from
\* both series exactly the rows taken earlier than `at` minus two days, keeps
\* every other row (one taken exactly then included), and its two counts are
\* the numbers of rows it removed.
C12_PruneDeletesExactlyOlderRows ==
    [][\A c \in Callers :
         (pc[c] = "delete" /\ pc'[c] = "pruned") =>
            LET cut == MinusDays(job[c].at, RetentionDays) IN
            /\ temperature_readings' =
                 temperature_readings \ TakenBefore(temperature_readings, cut)
            /\ solar_readings' = solar_readings \ TakenBefore(solar_readings, cut)
            /\ job'[c].deleted_temp_count =
                 Cardinality(TakenBefore(temperature_readings, cut))
            /\ job'[c].deleted_solar_count =
                 Cardinality(TakenBefore(solar_readings, cut))]_vars

\* C12 witness: after solar readings three days and one hour before T, a
\* prune at T has removed one solar row and left the one-hour-old one, and
\* has removed two temperature rows and kept the one taken exactly two days
\* before T.
C12_Witness ==
    \E c \in Callers :
       /\ pc[c] = "pruned"
       /\ job[c].at = Instant(12, 20, 15, 5)
       /\ job[c].deleted_solar_count = 1
       /\ job[c].deleted_temp_count = 2
       /\ { r.timestamp : r \in solar_readings } =
            { IsoFormat(Instant(12, 19, 15, 5)) }
       /\ IsoFormat(Instant(10, 20, 15, 5)) \in
            { r.timestamp : r \in temperature_readings }

\* The reply a poll got has every field of its series.
Complete(c) ==
    /\ local[c].outcome = "Reply"
    /\ \A f \in JobFields(local[c].op) : Has(local[c].data, f)

\* The row of the series of poll `op` keyed ts with the values of `data`.
RowOf(op, ts, data) ==
    IF op = Temperature
    THEN [ timestamp |-> ts,
           indoor_temp_C |-> (CHOOSE p \in data.d : p[1] = "i_temp")[2],
           outdoor_temp_C |-> (CHOOSE p \in data.d : p[1] = "o_temp")[2] ]
    ELSE [ timestamp |-> ts,
           voltage_V |-> (CHOOSE p \in data.d : p[1] = "voltage_V")[2],
           current_mA |-> (CHOOSE p \in data.d : p[1] = "current_mA")[2],
           power_mW |-> (CHOOSE p \in data.d : p[1] = "power_mW")[2] ]

\* C13: a poll goes on to upsert exactly when its exchange returned a Reply
\* with every field of its series, and then its record is keyed by the clock
\* reading it took and holds the reply's values; a poll whose exchange ended
\* Unavailable, Timeout or LinkFailure, or whose Reply lacks a field, ends
\* at once and leaves both series as they are; no poll connects or writes
\* its command more than once; and a series changes only in the upsert of a
\* poll of that series, by that one record, or in a prune.
C13_PollStoresOnlyCompleteReply ==
    /\ [](\A c \in Callers :
            /\ local[c].op \in PollJobs =>
                 /\ local[c].attempts <= 1
                 /\ local[c].sent \in {<<>>, Encode(local[c].command)}
            /\ pc[c] = "insert" =>
                 /\ local[c].op \in PollJobs
                 /\ Complete(c)
                 /\ job[c].record =
                      RowOf(local[c].op, IsoFormat(job[c].at), local[c].data))
    /\ [][\A c \in Callers :
            (pc[c] = "done" /\ pc'[c] # "done" /\ local[c].outcome \notin Raised) =>
               IF Complete(c)
               THEN pc'[c] = "insert" /\ job'[c].at = now
               ELSE /\ pc'[c] = "idle"
                    /\ temperature_readings' = temperature_readings
                    /\ solar_readings' = solar_readings]_vars
    /\ [][/\ temperature_readings' # temperature_readings =>
               \E c \in Callers :
                  \/ pc[c] = "delete"
                  \/ /\ Upserts(c)
                     /\ local[c].op = Temperature
                     /\ temperature_readings' \ temperature_readings = {job[c].record}
          /\ solar_readings' # solar_readings =>
               \E c \in Callers :
                  \/ pc[c] = "delete"
                  \/ /\ Upserts(c)
                     /\ local[c].op = Solar
                     /\ solar_readings' \ solar_readings = {job[c].record}]_vars

\* C13 witness: the device answered {"i_temp": 21.5, "o_temp": 9.0} to the
\* temperature poll and the reading is stored under the time of the poll,
\* and a solar poll that then ran and got no complete reply left its series
\* as it was.
C13_Witness ==
    /\ [ timestamp |-> IsoFormat(Instant(12, 20, 15, 5)),
         indoor_temp_C |-> "21.5", outdoor_temp_C |-> "9.0" ]
          \in temperature_readings
    /\ solar_readings = OldSolarRows
    /\ sched.fired = Solar
    /\ ~sched.skipped
    /\ \A c \in Callers : pc[c] = "idle"

\* The threads that run job j.
Running(j) == { c \in Callers : pc[c] # "idle" /\ local[c].op = j }

\* A thread that was idle runs job j after this step.
Started(j) ==
    \E c \in Callers : pc[c] = "idle" /\ pc'[c] # "idle" /\ local'[c].op = j

\* The trigger of some job fires in this step.
Fires == sched'.firings # sched.firings

\* C14: no job runs on two threads at once, and the scheduler's count of a
\* job's running instances is the number of threads running it; a firing
\* of a job that is still running is skipped and starts nothing, a firing
\* that starts a run is of a job that was not running.
C14_OneInstancePerJob ==
    /\ [](\A j \in Jobs :
            /\ Cardinality(Running(j)) <= 1
            /\ sched.instances[j] = Cardinality(Running(j)))
    /\ [][Fires =>
            IF Running(sched'.fired) # {}
            THEN sched'.skipped /\ pc' = pc /\ local' = local
            ELSE ~sched'.skipped /\ Started(sched'.fired)]_vars

\* C14 witness: the temperature poll is reading the port on one thread, a
\* second firing of its trigger has just been skipped, and the scheduler
\* still counts one running instance.
C14_Witness ==
    /\ sched.fired = Temperature
    /\ sched.skipped
    /\ sched.instances[Temperature] = 1
    /\ \E c \in Callers :
         /\ local[c].op = Temperature /\ pc[c] = "read"
         /\ \A d \in Callers \ {c} : pc[d] = "idle"

\* The daylight window of the solar poll: 07:00 <= t <= 20:00.
InWindow(t) ==
    /\ t.hour >= 7
    /\ t.hour < 20 \/ (t.hour = 20 /\ t.minute = 0 /\ t.micro = 0)

\* C15: the trigger of the solar poll fires only at times inside the
\* window from 7 AM to 8 PM.
C15_SolarFiresOnlyInWindow ==
    [][(Fires /\ sched'.fired = Solar) => InWindow(now)]_vars

\* ------------------------------------------- properties of the gate
\* Thread c is inside a call of fetch_from_serial.
InCall(c) == pc[c] \notin {"idle", "done"}

MalformedLines ==
    { <<Tok("{"), Tok("x"), Tok("}"), NL>>,
      <<Tok("{"), Mem("value", "ON"), Tok(","), Tok("}"), NL>> }

\* Thread c reads a line in this step and its loop goes on.
Skips(c) == pc[c] = "read" /\ pc'[c] = "read" /\ local'[c] # local[c]

\* C17: a step that skips a line (a brace-wrapped line that does not parse
\* among them) or that ends the exchange in Timeout leaves `ser` naming the
\* same open port and opens none; `ser` goes from a port to None only in a
\* step that ends a call in LinkFailure or Unavailable, the two outcomes of
\* an I/O error; the route's return leaves `ser` alone; and a call that
\* finds `ser` naming a port goes to the lock without a connect.
C17_TimeoutKeepsConnection ==
    /\ [][\A c \in Callers :
            (Skips(c) \/ Ends(c, "Timeout")) =>
               /\ ser # 0
               /\ ser' = ser
               /\ opened' = opened]_vars
    /\ [][(ser # 0 /\ ser' = 0) =>
            \E c \in Callers :
               Ends(c, "LinkFailure") \/ Ends(c, "Unavailable")]_vars
    /\ [][\A c \in Callers :
            /\ (pc[c] = "done" /\ pc'[c] = "idle") => ser' = ser
            /\ (pc[c] = "idle" /\ pc'[c] # "idle" /\ ser # 0) =>
                 /\ pc'[c] \in {"lock", "done"}
                 /\ local'[c].attempts = 0
                 /\ ser' = ser]_vars

\* C17 witness: an exchange read a brace-wrapped line that does not parse,
\* ended in Timeout, and `ser` still names the port it was opened on.
C17_Witness ==
    \E c \in Callers :
       /\ pc[c] = "done"
       /\ local[c].outcome = "Timeout"
       /\ local[c].line \in MalformedLines
       /\ local[c].attempts = 0
       /\ ser = 1
       /\ opened = 1

\* C18: the line an exchange returns as its Reply is the device's answer to
\* the command that this exchange wrote.
C18_ReplyAnswersOwnCommand ==
    \A c \in Callers :
       (pc[c] = "done" /\ local[c].outcome = "Reply")
       => heard[c].line = heard[c].own

\* C19: while a thread's connect is in its settle delay no other thread is
\* inside the command-write / reply-read cycle, and the flush that ends the
\* settle delay does not run while another thread waits for its reply.
C19_NoExchangeDuringSettle ==
    /\ [](\A c, d \in Callers :
            (c # d /\ pc[d] = "settle") => pc[c] \notin InCycle)
    /\ [][\A c, d \in Callers :
            (c # d /\ Settles(d)) => pc[c] # "read"]_vars

\* The ports that are open: the one `ser` names.
OpenHandles == IF ser = 0 THEN {} ELSE {ser}

\* C20: a port is opened only while no port is open, so that never two are
\* open at once and two calls that start while `ser` is None open one port
\* between them.
C20_AtMostOneOpenHandle ==
    [][\A c \in Callers :
         (Opens(c) /\ opened' # opened) => OpenHandles = {}]_vars

====
